---- MODULE Spec2Model ----
(***************************************************************************)
(* Group real-time location cache of the location-tracking service:        *)
(* consistent-hash shard selection (app/dependencies/db.py), the group     *)
(* cache service and its Lua scripts (app/services/group_cache.py), the    *)
(* connection registry (app/websocket/manager.py) and the websocket        *)
(* session (app/websocket/endpoints/groups.py, handlers/group.py).         *)
(***************************************************************************)
EXTENDS Integers, Sequences, FiniteSets, TLC

(***************************************************************************)
(* Bounds of the model.                                                    *)
(***************************************************************************)
NumShards == 2
MaxTs == 2
MaxUpdates == 2
MaxInflight == 1
NumCallers == 2
NumSessions == 2
MaxPublishes == 1
MaxServers == 5
MaxInvalid == 2
TtlWindow == 2

Shards == 0 .. (NumShards - 1)
G1 == "11111111-1111-1111-1111-111111111111"
G2 == "22222222-2222-2222-2222-222222222222"
Groups == {G1, G2}
Users == {"u1", "u2"}
Timestamps == 1 .. MaxTs
Coords == {<<10, 106>>, <<11, 107>>}

(***************************************************************************)
(* Values and conversions.  A text value is [kind, val]: kind says how the *)
(* text is written, val is the number of seconds it denotes.               *)
(*   "decimal"      a decimal numeral, e.g. "100"                          *)
(*   "str_datetime" Python's str(datetime), "1970-01-01 00:01:40+00:00"    *)
(*   "isoformat"    datetime.isoformat(),   "1970-01-01T00:01:40+00:00"    *)
(***************************************************************************)

\* pydantic's datetime field: a numeric input is read as unix seconds.
ParseDatetime(n) == [epoch |-> n]

\* str(location_data.timestamp) of a datetime.
PyStr(dt) == [kind |-> "str_datetime", val |-> dt.epoch]

\* jsonable_encoder(model_dump()) turns a datetime into its isoformat() text.
IsoFormat(dt) == [kind |-> "isoformat", val |-> dt.epoch]

\* GroupUpdateLocationRequest(**data): the validated request object.
GroupUpdateLocationRequest(coord, n) ==
    [longitude |-> coord[2], latitude |-> coord[1], timestamp |-> ParseDatetime(n)]

\* BaseSchema.serializable_dict
serializable_dict(req) ==
    [longitude |-> req.longitude, latitude |-> req.latitude,
     timestamp |-> IsoFormat(req.timestamp)]

\* payload = {"user_uuid": user_uuid, **location_data.serializable_dict()}
Payload(u, req) ==
    LET d == serializable_dict(req)
    IN  [user_uuid |-> u, longitude |-> d.longitude, latitude |-> d.latitude,
         timestamp |-> d.timestamp]

\* json.dumps / json.loads / cjson.decode of such a dict: the text wraps the
\* fields, a string field stays a string.
JsonDumps(d) == [json |-> d]
JsonLoads(s) == s.json

\* A stored text that is no JSON document, and whether cjson.decode and
\* json.loads accept a text (both raise on one they do not accept).
NotJson == [text |-> "not json"]
JsonDecodes(s) == "json" \in DOMAIN s

\* Lua's tonumber: the number a decimal numeral denotes, nil (no value) for
\* any other text.
LuaToNumber(x) == IF x.kind = "decimal" THEN {x.val} ELSE {}

Requests == {GroupUpdateLocationRequest(c, n) : c \in Coords, n \in Timestamps}

\* The JSON body a client submits: coordinates, the timestamp as a number of
\* unix seconds, and a field the schema does not declare.
LocationData(coord, n) ==
    [latitude |-> coord[1], longitude |-> coord[2],
     timestamp |-> [kind |-> "number", val |-> n], nickname |-> "nick"]
ExtraFields == {"nickname"}
LocationBodies == {LocationData(c, n) : c \in Coords, n \in Timestamps}

\* GroupUpdateLocationRequest(**data): pydantic reads the declared fields
\* and ignores the others.
ValidateLocation(data) ==
    GroupUpdateLocationRequest(<<data.latitude, data.longitude>>, data.timestamp.val)

(***************************************************************************)
(* State.                                                                  *)
(***************************************************************************)
VARIABLES
    reachable,   \* [Shards -> BOOLEAN]: whether a shard answers PING
    member,      \* [Shards -> [Groups -> SUBSET Users]]: the sets member:<g>
    location,    \* [Shards -> [Groups -> hash user -> json text]]: location:<g>
    inflight,    \* remove_member / remove_group calls between their two commands
    nupdates,    \* number of location updates submitted so far
    lastCall,    \* what the most recent service call did, if a location update
    calls,       \* [Callers -> a get_redis call in progress]
    sessions,    \* [Sessions -> a websocket connection and its listener task]
    active_connections,  \* [Groups -> SUBSET Sessions]: ConnectionManager's registry
    ttl,         \* [Shards -> [Groups -> remaining lifetime of member:<g>, location:<g>]]
    db,          \* the durable store: groups and memberships
    lastRequest  \* what the most recent API request, broadcast or hash call did

cacheVars == <<member, location, inflight, nupdates, ttl>>
wsVars == <<sessions, active_connections>>
apiVars == <<db, lastRequest>>
vars == <<reachable, cacheVars, lastCall, calls, wsVars, apiVars>>

\* lastRequest before any request.
NoRequest == [op |-> "none"]

\* lastCall after a step that is not a location update.
NoCall ==
    [op |-> "none", group |-> G1, user |-> "u1", shard |-> 0, ts |-> 0,
     payload |-> {}, before |-> {}, after |-> {}, ret |-> 0, published |-> <<>>]

(***************************************************************************)
(* Consistent hash router.                                                 *)
(***************************************************************************)

\* The key of get_server_index's docstring.
DocKey == "d689a52b-6abe-48cd-b1b3-4c3dc7518145"

\* mmh3.hash(key): the signed 32-bit murmur3 of the key.
mmh3_hash(key) ==
    CASE key = G1 -> -223481309
      [] key = G2 -> 430604836
      [] key = DocKey -> 1261740623
      [] key = "invalid-uuid" -> -665152356
      [] key = "" -> 0

\* A remainder that keeps the sign of the hash, without the mask.
TruncatedMod(hash_value, num_servers) ==
    IF hash_value >= 0
    THEN hash_value % num_servers
    ELSE 0 - ((0 - hash_value) % num_servers)

\* (hash_value & 0xFFFFFFFF) % num_servers.  The mask adds 2^32 to a negative
\* hash; 2^32 is 65536 * 65536, and the sum is reduced modulo num_servers
\* term by term to stay within 32-bit integers.
MaskedMod(hash_value, num_servers) ==
    IF hash_value >= 0
    THEN hash_value % num_servers
    ELSE ((hash_value % num_servers)
          + (((65536 % num_servers) * (65536 % num_servers)) % num_servers))
         % num_servers

\* get_server_index, for num_servers >= 1.
get_server_index(key, num_servers) == MaskedMod(mmh3_hash(key), num_servers)

\* A check that lets every count through.
AnyNumServers(num_servers) == FALSE

\* if num_servers < 1: raise ValueError
InvalidNumServers(num_servers) == num_servers < 1

\* One call of get_server_index, for any integer count: what it raises and
\* what it returns.  Past the check of lines 18-19, line 25 is Python's %:
\* ZeroDivisionError for 0, and for a negative count a result that has the
\* count's sign.
GetServerIndexResult(key, num_servers) ==
    IF InvalidNumServers(num_servers)
    THEN [raises |-> "ValueError", returns |-> {}]
    ELSE IF num_servers = 0
    THEN [raises |-> "ZeroDivisionError", returns |-> {}]
    ELSE IF num_servers > 0
    THEN [raises |-> "none", returns |-> {get_server_index(key, num_servers)}]
    ELSE [raises |-> "none",
          returns |-> {0 - (((0 - num_servers) - get_server_index(key, 0 - num_servers))
                            % (0 - num_servers))}]

\* The attributes of app.config.settings (class Settings).
SettingsAttrs ==
    {"APP_NAME", "APP_VERSION", "APP_DESCRIPTION", "APP_URL", "APP_DOCS_URL",
     "SECRET_KEY", "API_PREFIX", "BACKEND_CORS_ORIGINS", "DATABASE_URL",
     "DATABASE_HOST", "DATABASE_PORT", "DB_DEBUG", "ACCESS_TOKEN_EXPIRE_SECONDS",
     "SECURITY_ALGORITHM", "LOGGING_CONFIG_FILE", "DEFAULT_ADMIN_USERNAME",
     "DEFAULT_ADMIN_EMAIL", "DEFAULT_ADMIN_PASSWORD", "REDIS_URLS",
     "REDIS_MAX_CONNECTIONS", "GROUP_LOCATION_TTL"}

\* The except branch of get_redis first builds its warning from
\* settings.REDIS_URLs[server_idx]; reading an attribute the settings object
\* does not have raises AttributeError inside the handler, and the lines that
\* advance server_idx and attempts are not reached.
WarningRaises == "REDIS_URLs" \notin SettingsAttrs

\* get_redis run against one snapshot of the shards' reachability: the loop
\* from `while attempts < num_servers` on.  probes is the sequence of shard
\* indices pinged so far.
RECURSIVE get_redis_loop(_, _, _, _)
get_redis_loop(server_idx, attempts, probes, reach) ==
    IF attempts < NumShards
    THEN IF reach[server_idx]
         THEN [status |-> "ok", client |-> server_idx,
               probes |-> Append(probes, server_idx)]
         ELSE IF WarningRaises
              THEN [status |-> "AttributeError", client |-> server_idx,
                    probes |-> Append(probes, server_idx)]
              ELSE get_redis_loop((server_idx + 1) % NumShards, attempts + 1,
                                  Append(probes, server_idx), reach)
    ELSE [status |-> "NoAvailableRedisServers", client |-> server_idx,
          probes |-> probes]

get_redis(group_uuid, reach) ==
    get_redis_loop(get_server_index(group_uuid, NumShards), 0, <<>>, reach)

\* A check that takes every text for a UUID.
AnyTextParses(group_uuid) == TRUE

\* uuid.UUID(group_uuid) returns (TRUE) or raises ValueError (FALSE): the
\* texts of 32 hexadecimal digits, hyphens aside, parse.
UuidParses(group_uuid) == group_uuid \in {G1, G2, DocKey}

\* The status codes of the two HTTPExceptions.
ServiceUnavailable == 503
BadRequest == 400

\* The whole of get_redis, lines 36-66, for a list of clients (the indices
\* of redis_clients) and a key: the guards of lines 36-44, then the loop.
get_redis_dependency(group_uuid, redis_clients, reach) ==
    IF redis_clients = {}
    THEN [status |-> "HTTPException", code |-> ServiceUnavailable, probes |-> <<>>]
    ELSE IF ~UuidParses(group_uuid)
    THEN [status |-> "HTTPException", code |-> BadRequest, probes |-> <<>>]
    ELSE LET r == get_redis(group_uuid, reach)
         IN  [status |-> r.status, code |-> 0, probes |-> r.probes]

(***************************************************************************)
(* get_redis step by step: each ping is an await, and the shards' state    *)
(* may change between two pings.                                           *)
(***************************************************************************)
Callers == 1 .. NumCallers
Keys == Groups

IdleCall ==
    [pc |-> "idle", key |-> G1, server_idx |-> 0, attempts |-> 0,
     probes |-> <<>>, client |-> 0, error |-> "none"]

\* Lines 46-48: num_servers, server_idx, attempts.
get_redis_start(c, key) ==
    /\ calls[c].pc = "idle"
    /\ calls' = [calls EXCEPT ![c] =
                    [IdleCall EXCEPT !.pc = "probe", !.key = key,
                        !.server_idx = get_server_index(key, NumShards)]]
    /\ lastCall' = NoCall
    /\ UNCHANGED <<reachable, cacheVars, wsVars, apiVars>>

\* One iteration of the while loop: the ping, then either the return or the
\* except branch, and the loop's exit when attempts reaches num_servers.
get_redis_probe(c) ==
    LET call == calls[c]
        ok == reachable[call.server_idx]
        probed == Append(call.probes, [idx |-> call.server_idx, ok |-> ok])
    IN  /\ call.pc = "probe"
        /\ call.attempts < NumShards
        /\ calls' = [calls EXCEPT ![c] =
               IF ok
               THEN [call EXCEPT !.pc = "returned", !.client = call.server_idx,
                                 !.probes = probed]
               ELSE IF WarningRaises
               THEN [call EXCEPT !.pc = "raised", !.error = "AttributeError",
                                 !.probes = probed]
               ELSE IF call.attempts + 1 < NumShards
               THEN [call EXCEPT !.server_idx = (call.server_idx + 1) % NumShards,
                                 !.attempts = call.attempts + 1,
                                 !.probes = probed]
               ELSE [call EXCEPT !.pc = "raised",
                                 !.error = "NoAvailableRedisServers",
                                 !.server_idx = (call.server_idx + 1) % NumShards,
                                 !.attempts = call.attempts + 1,
                                 !.probes = probed]]
        /\ lastCall' = NoCall
        /\ UNCHANGED <<reachable, cacheVars, wsVars, apiVars>>

\* The caller takes the client or the exception; the next request may start.
get_redis_done(c) ==
    /\ calls[c].pc \in {"returned", "raised"}
    /\ calls' = [calls EXCEPT ![c] = IdleCall]
    /\ lastCall' = NoCall
    /\ UNCHANGED <<reachable, cacheVars, wsVars, apiVars>>

\* A shard stops or starts answering.
ShardDown(s) ==
    /\ reachable[s]
    /\ reachable' = [reachable EXCEPT ![s] = FALSE]
    /\ lastCall' = NoCall
    /\ UNCHANGED <<cacheVars, calls, apiVars, wsVars>>

ShardUp(s) ==
    /\ ~reachable[s]
    /\ reachable' = [reachable EXCEPT ![s] = TRUE]
    /\ lastCall' = NoCall
    /\ UNCHANGED <<cacheVars, calls, apiVars, wsVars>>

(***************************************************************************)
(* Group cache service.                                                    *)
(***************************************************************************)

\* A hash with no field (a key that does not exist).
EmptyHash == [f \in {} |-> f]

\* HGET location_key field: the stored text, or nothing.
HGet(hash, field) == IF field \in DOMAIN hash THEN {hash[field]} ELSE {}

\* An HSET that replaces the whole hash by the one field.
HSetOnly(hash, field, payload) == [f \in {field} |-> payload]

\* HSET location_key field payload
HSet(hash, field, payload) ==
    [f \in DOMAIN hash \cup {field} |-> IF f = field THEN payload ELSE hash[f]]

\* An HDEL that empties the hash.
HDelAll(h, f) == EmptyHash

\* HDEL location_key field
HDel(hash, field) == [f \in DOMAIN hash \ {field} |-> hash[f]]

\* The test `current_ts and current_ts >= new_ts` of both update scripts:
\* whether the script returns 0 without writing.
ScriptSkips(hash, field, new_ts_arg) ==
    \E current \in HGet(hash, field) :
        \E current_ts \in LuaToNumber(JsonLoads(current).timestamp) :
            \E new_ts \in LuaToNumber(new_ts_arg) : current_ts >= new_ts

\* Lua aborts the script when cjson.decode rejects the stored text, and when
\* it compares a number with nil.
ScriptErrors(hash, field, new_ts_arg) ==
    \E current \in HGet(hash, field) :
        \/ ~JsonDecodes(current)
        \/ /\ LuaToNumber(JsonLoads(current).timestamp) # {}
           /\ LuaToNumber(new_ts_arg) = {}

\* The ghost record of one location update call.
CallRecord(op, s, g, u, req, ret, pub) ==
    [op |-> op, group |-> g, user |-> u, shard |-> s, ts |-> req.timestamp.epoch,
     payload |-> {JsonDumps(Payload(u, req))},
     before |-> HGet(location[s][g], u), after |-> HGet(location'[s][g], u),
     ret |-> ret, published |-> pub]

\* The ghost record of one membership call: before holds the user if the
\* user was in the membership set when the call's first command ran.
MemberCallRecord(op, s, g, u, was_member, ret) ==
    [NoCall EXCEPT !.op = op, !.group = g, !.user = u, !.shard = s,
                   !.before = IF was_member THEN {u} ELSE {}, !.ret = ret]

\* An SADD that forgets the members the set had.
SAddReplace(set, u) == {u}

\* An SREM that deletes the whole set.
SRemAll(set, u) == {}

\* A DEL that leaves the hash as it is.
KeepHash(hash) == hash

\* DEL key of a set and of a hash: the key no longer exists.
DelSet(set) == {}
DelHash(hash) == EmptyHash

\* An EXPIRE that sets no lifetime.
ExpireNothing(key_exists) == 0

\* EXPIRE key ttl: the key's lifetime is the configured window again; a
\* key that does not exist gets none (0).  TTL of a key that a command may
\* have deleted by removing its last element.
Expire(key_exists) == IF key_exists THEN TtlWindow ELSE 0
KeyTtl(key_exists, remaining) == IF key_exists THEN remaining ELSE 0

\* SADD key member / SREM key member on a Redis set.
SAdd(set, u) == set \cup {u}
SRem(set, u) == set \ {u}

Sessions == 1 .. NumSessions

\* A PUBLISH that reaches every subscribed connection, whatever its channel.
PublishToAll(sess, s, g, id, payload) ==
    [x \in Sessions |->
        IF sess[x].listener = "subscribed"
        THEN [sess[x] EXCEPT
                 !.inbox = Append(@, [id |-> id, data |-> payload,
                                      after_loss |-> FALSE]),
                 !.owed = Append(@, id)]
        ELSE sess[x]]

\* A PUBLISH whose message overtakes the ones waiting in a connection.
PublishOvertaking(sess, s, g, id, payload) ==
    [x \in Sessions |->
        IF sess[x].listener = "subscribed" /\ sess[x].client = s /\ sess[x].group = g
        THEN [sess[x] EXCEPT
                 !.inbox = <<[id |-> id, data |-> payload,
                              after_loss |-> sess[x].user \notin member[s][g]]>> \o @,
                 !.owed = Append(@, id)]
        ELSE sess[x]]

\* PUBLISH channel payload on shard s: the message reaches every pubsub
\* connection subscribed to group:<g>:location on that shard, and nobody
\* else.  id numbers the publish; owed and after_loss are bookkeeping: the
\* publishes a session was subscribed for, and whether the session's user
\* was out of the membership set when the message was published.
Publish(sess, s, g, id, payload) ==
    [x \in Sessions |->
        IF sess[x].listener = "subscribed" /\ sess[x].client = s /\ sess[x].group = g
        THEN [sess[x] EXCEPT
                 !.inbox = Append(@, [id |-> id, data |-> payload,
                                      after_loss |-> sess[x].user \notin member[s][g]]),
                 !.owed = Append(@, id)]
        ELSE sess[x]]

\* The effect of the update_location script on shard s, and of the
\* update_location_and_publish script when publish is TRUE.  sess is the
\* sessions' state the published message is delivered into.
RunUpdateScript(op, publish, s, g, u, req, sess) ==
    LET payload == JsonDumps(Payload(u, req))
        new_ts_arg == PyStr(req.timestamp)
    IN  IF ScriptErrors(location[s][g], u, new_ts_arg)
             \/ ScriptSkips(location[s][g], u, new_ts_arg)
        THEN /\ UNCHANGED <<location, ttl>>
             /\ sessions' = sess
             /\ lastCall' = CallRecord(op, s, g, u, req, 0, <<>>)
        ELSE /\ location' = [location EXCEPT ![s][g] = HSet(@, u, payload)]
             /\ ttl' = [ttl EXCEPT ![s][g] = [location |-> Expire(TRUE),
                                               member |-> Expire(member[s][g] # {})]]
             /\ sessions' = IF publish
                            THEN Publish(sess, s, g, nupdates + 1, payload)
                            ELSE sess
             /\ lastCall' = CallRecord(op, s, g, u, req, 1,
                                       IF publish THEN <<payload>> ELSE <<>>)

\* A sync that makes the set equal to the list.
SAddAllReplace(set, members) == members

\* The SADD loop of sync_group.
SAddAll(set, members) == set \cup members

\* GroupCacheService.add_member
add_member(g, u) ==
    LET r == get_redis(g, reachable)
    IN  /\ r.status = "ok"
        /\ member' = [member EXCEPT ![r.client][g] = SAdd(@, u)]
        /\ ttl' = [ttl EXCEPT ![r.client][g].member = Expire(TRUE)]
        /\ lastCall' = MemberCallRecord("add_member", r.client, g, u,
                                         u \in member[r.client][g], 1)
        /\ UNCHANGED <<calls, apiVars, wsVars, reachable, location, inflight, nupdates>>

\* GroupCacheService.sync_group; members is what the durable store lists.
sync_group(g, members) ==
    LET r == get_redis(g, reachable)
    IN  /\ r.status = "ok"
        /\ members # {}
        /\ member' = [member EXCEPT ![r.client][g] = SAddAll(@, members)]
        /\ ttl' = [ttl EXCEPT ![r.client][g].member = Expire(TRUE)]
        /\ lastCall' = MemberCallRecord("sync_group", r.client, g, "u1",
                                         members \subseteq member[r.client][g], 1)
        /\ UNCHANGED <<calls, apiVars, wsVars, reachable, location, inflight, nupdates>>

\* GroupCacheService.sync_group when the durable store lists no member of
\* the group: `if not members: return`, before the script.
sync_group_empty(g) ==
    LET r == get_redis(g, reachable)
    IN  /\ r.status = "ok"
        /\ lastCall' = MemberCallRecord("sync_group", r.client, g, "u1", FALSE, 0)
        /\ UNCHANGED <<calls, apiVars, wsVars, reachable, cacheVars>>

\* GroupCacheService.update_location
update_location(g, u, req) ==
    LET r == get_redis(g, reachable)
    IN  /\ r.status = "ok"
        /\ nupdates < MaxUpdates
        /\ nupdates' = nupdates + 1
        /\ RunUpdateScript("update_location", FALSE, r.client, g, u, req, sessions)
        /\ UNCHANGED <<calls, apiVars, active_connections, reachable, member, inflight>>

\* GroupCacheService.update_location_and_publish
update_location_and_publish(g, u, req) ==
    LET r == get_redis(g, reachable)
    IN  /\ r.status = "ok"
        /\ nupdates < MaxUpdates
        /\ nupdates' = nupdates + 1
        /\ RunUpdateScript("update_location_and_publish", TRUE, r.client, g, u, req,
                           sessions)
        /\ UNCHANGED <<calls, apiVars, active_connections, reachable, member, inflight>>

\* GroupCacheService.remove_member, first command: SREM member_key user.
remove_member_srem(g, u) ==
    LET r == get_redis(g, reachable)
    IN  /\ r.status = "ok"
        /\ Cardinality(inflight) < MaxInflight
        /\ member' = [member EXCEPT ![r.client][g] = SRem(@, u)]
        /\ ttl' = [ttl EXCEPT ![r.client][g].member =
                       KeyTtl(SRem(member[r.client][g], u) # {}, @)]
        /\ inflight' = inflight \cup
               {[op |-> "remove_member", shard |-> r.client, group |-> g,
                 user |-> u, removed |-> u \in member[r.client][g]]}
        /\ lastCall' = NoCall
        /\ UNCHANGED <<calls, apiVars, wsVars, reachable, location, nupdates>>

\* GroupCacheService.remove_member, second command: HDEL location_key user.
remove_member_hdel(c) ==
    /\ c \in inflight
    /\ c.op = "remove_member"
    /\ location' = [location EXCEPT ![c.shard][c.group] = HDel(@, c.user)]
    /\ ttl' = [ttl EXCEPT ![c.shard][c.group].location =
                   KeyTtl(DOMAIN HDel(location[c.shard][c.group], c.user) # {}, @)]
    /\ inflight' = inflight \ {c}
    /\ lastCall' = MemberCallRecord("remove_member", c.shard, c.group, c.user, c.removed,
                                     IF c.removed THEN 1 ELSE 0)
    /\ UNCHANGED <<calls, apiVars, wsVars, reachable, member, nupdates>>

\* GroupCacheService.remove_group, first command: DEL member_key.
remove_group_del_member(g) ==
    LET r == get_redis(g, reachable)
    IN  /\ r.status = "ok"
        /\ Cardinality(inflight) < MaxInflight
        /\ member' = [member EXCEPT ![r.client][g] = DelSet(@)]
        /\ ttl' = [ttl EXCEPT ![r.client][g].member = KeyTtl(FALSE, @)]
        /\ inflight' = inflight \cup
               {[op |-> "remove_group", shard |-> r.client, group |-> g,
                 user |-> "u1", removed |-> member[r.client][g] # {}]}
        /\ lastCall' = NoCall
        /\ UNCHANGED <<calls, apiVars, wsVars, reachable, location, nupdates>>

\* GroupCacheService.remove_group, second command: DEL location_key.
remove_group_del_location(c) ==
    /\ c \in inflight
    /\ c.op = "remove_group"
    /\ location' = [location EXCEPT ![c.shard][c.group] = DelHash(@)]
    /\ ttl' = [ttl EXCEPT ![c.shard][c.group].location = KeyTtl(FALSE, @)]
    /\ inflight' = inflight \ {c}
    /\ lastCall' = MemberCallRecord("remove_group", c.shard, c.group, c.user, c.removed, 0)
    /\ UNCHANGED <<calls, apiVars, wsVars, reachable, member, nupdates>>

\* A membership test that every user passes.
AlwaysMember(s, g, u) == TRUE

\* An existence test that every group passes.
AlwaysExists(s, g) == TRUE

\* GroupCacheService.is_member / is_exists / get_group_locations on shard s.
is_member(s, g, u) == u \in member[s][g]
is_exists(s, g) == member[s][g] # {}
get_group_locations(s, g) == {JsonLoads(location[s][g][f]) : f \in DOMAIN location[s][g]}

\* json.loads(val) raising inside get_group_locations' comprehension.
get_group_locations_raises(s, g) ==
    \E f \in DOMAIN location[s][g] : ~JsonDecodes(location[s][g][f])

\* GET /groups/{group_uuid}/locations: get_group_locations and the response.
api_get_locations(g) ==
    LET r == get_redis(g, reachable)
    IN  /\ r.status = "ok"
        /\ lastRequest' = [op |-> "get_locations", group |-> g,
                           status |-> IF get_group_locations_raises(r.client, g)
                                      THEN "error" ELSE "success"]
        /\ lastCall' = NoCall
        /\ UNCHANGED <<reachable, cacheVars, calls, wsVars, db>>

\* Another client of the shard stores, under a user's field of the location
\* hash, a text that is no JSON document.
external_hset(g, u) ==
    LET r == get_redis(g, reachable)
    IN  /\ r.status = "ok"
        /\ location' = [location EXCEPT ![r.client][g] = HSet(@, u, NotJson)]
        /\ lastCall' = NoCall
        /\ UNCHANGED <<reachable, member, inflight, nupdates, ttl, calls, wsVars, apiVars>>

\* A caller calls get_server_index(key, num_servers); lastRequest holds the
\* call with its outcome, and the call before it.
HashCall(key, num_servers) ==
    [key |-> key, num_servers |-> num_servers,
     result |-> GetServerIndexResult(key, num_servers)]

get_server_index_call(key, num_servers) ==
    /\ lastRequest' = [op |-> "get_server_index",
                       call |-> HashCall(key, num_servers),
                       previous |-> IF lastRequest.op = "get_server_index"
                                    THEN {lastRequest.call} ELSE {}]
    /\ UNCHANGED <<reachable, cacheVars, lastCall, calls, wsVars, db>>

\* A request resolves its shard client: Depends(get_redis).  lastRequest
\* holds the call with its outcome, and the call before it.
GetRedisCall(group_uuid, redis_clients) ==
    [key |-> group_uuid, clients |-> redis_clients,
     result |-> get_redis_dependency(group_uuid, redis_clients, reachable)]

get_redis_call(group_uuid, redis_clients) ==
    /\ lastRequest' = [op |-> "get_redis",
                       call |-> GetRedisCall(group_uuid, redis_clients),
                       previous |-> IF lastRequest.op = "get_redis"
                                    THEN {lastRequest.call} ELSE {}]
    /\ lastCall' = NoCall
    /\ UNCHANGED <<reachable, cacheVars, calls, wsVars, db>>

\* A location update of a member, command by command.  First the membership
\* check: is_exists and is_member at the start of handle_websocket_message
\* (lines 15-21), ensure_user_is_member_of_group for the HTTP endpoint.
\* lastRequest holds the request between the check and the script.
location_request_check(g, u, req) ==
    LET r == get_redis(g, reachable)
    IN  /\ r.status = "ok"
        /\ lastRequest.op = "location_request" => lastRequest.stage # "checked"
        /\ lastRequest' = [op |-> "location_request", group |-> g, user |-> u,
                           shard |-> r.client, req |-> req,
                           stage |-> IF is_exists(r.client, g) /\ is_member(r.client, g, u)
                                     THEN "checked" ELSE "rejected"]
        /\ lastCall' = NoCall
        /\ UNCHANGED <<reachable, cacheVars, calls, wsVars, db>>

\* Then the EVAL of update_location_and_publish, which reads no membership.
location_request_eval ==
    /\ lastRequest.op = "location_request"
    /\ lastRequest.stage = "checked"
    /\ nupdates < MaxUpdates
    /\ nupdates' = nupdates + 1
    /\ RunUpdateScript("update_location_and_publish", TRUE, lastRequest.shard,
                       lastRequest.group, lastRequest.user, lastRequest.req, sessions)
    /\ lastRequest' = [lastRequest EXCEPT !.stage = "done"]
    /\ UNCHANGED <<reachable, member, inflight, calls, active_connections, db>>

(***************************************************************************)
(* The group endpoints of app/api/v1/groups.py: the durable store and the  *)
(* cache.  cache_ok says whether the script's EVAL succeeds; done is the   *)
(* number of commands of a removal that succeed before the connection to   *)
(* the shard fails (2: both succeed).                                      *)
(***************************************************************************)
\* A handler that answers with an error when the cache fails.
OutcomeSurfaced(cache_failed) == IF cache_failed THEN "error" ELSE "success"

\* A handler that answers success whatever the cache did.
OutcomeIgnored(cache_failed) == "success"

\* create and join_group: except Exception: logger.error(...), then the
\* success response.
PopulateOutcome(cache_failed) == "success"

\* delete, leave_group and kick_user: except Exception: logger.error(...);
\* raise.
RemovalOutcome(cache_failed) == IF cache_failed THEN "error" ELSE "success"

RequestRecord(op, g, u, status, cache_failed) ==
    [op |-> op, group |-> g, user |-> u, status |-> status, cache_failed |-> cache_failed]

\* The try block of create and join_group: get_redis and add_member.
PopulateCache(g, u, cache_failed) ==
    LET r == get_redis(g, reachable)
    IN  IF cache_failed
        THEN UNCHANGED <<member, ttl>>
        ELSE /\ member' = [member EXCEPT ![r.client][g] = SAdd(@, u)]
             /\ ttl' = [ttl EXCEPT ![r.client][g].member = Expire(TRUE)]

\* POST /groups
api_create(g, u, cache_ok) ==
    LET cache_failed == get_redis(g, reachable).status # "ok" \/ ~cache_ok
    IN  /\ g \notin db.groups
        /\ db' = [groups |-> db.groups \cup {g},
                  memberships |-> [db.memberships EXCEPT ![g] = {u}]]
        /\ PopulateCache(g, u, cache_failed)
        /\ lastRequest' = RequestRecord("create", g, u, PopulateOutcome(cache_failed),
                                        cache_failed)
        /\ lastCall' = NoCall
        /\ UNCHANGED <<reachable, location, inflight, nupdates, calls, wsVars>>

\* POST /groups/{group_uuid}/join
api_join_group(g, u, cache_ok) ==
    LET cache_failed == get_redis(g, reachable).status # "ok" \/ ~cache_ok
    IN  /\ g \in db.groups
        /\ u \notin db.memberships[g]
        /\ db' = [db EXCEPT !.memberships[g] = @ \cup {u}]
        /\ PopulateCache(g, u, cache_failed)
        /\ lastRequest' = RequestRecord("join_group", g, u, PopulateOutcome(cache_failed),
                                        cache_failed)
        /\ lastCall' = NoCall
        /\ UNCHANGED <<reachable, location, inflight, nupdates, calls, wsVars>>

\* remove_member of which the first done commands succeed.
RemoveMemberCommands(g, u, done) ==
    LET s == get_redis(g, reachable).client
    IN  /\ member' = IF done >= 1 THEN [member EXCEPT ![s][g] = SRem(@, u)] ELSE member
        /\ location' = IF done >= 2 THEN [location EXCEPT ![s][g] = HDel(@, u)]
                       ELSE location
        /\ ttl' = [ttl EXCEPT ![s][g] =
               [member |-> IF done >= 1 THEN KeyTtl(SRem(member[s][g], u) # {}, @.member)
                           ELSE @.member,
                location |-> IF done >= 2
                             THEN KeyTtl(DOMAIN HDel(location[s][g], u) # {}, @.location)
                             ELSE @.location]]

\* remove_group of which the first done commands succeed.
RemoveGroupCommands(g, done) ==
    LET s == get_redis(g, reachable).client
    IN  /\ member' = IF done >= 1 THEN [member EXCEPT ![s][g] = DelSet(@)] ELSE member
        /\ location' = IF done >= 2 THEN [location EXCEPT ![s][g] = DelHash(@)]
                       ELSE location
        /\ ttl' = [ttl EXCEPT ![s][g] =
               [member |-> IF done >= 1 THEN KeyTtl(FALSE, @.member) ELSE @.member,
                location |-> IF done >= 2 THEN KeyTtl(FALSE, @.location) ELSE @.location]]

\* DELETE /groups/{group_uuid}
api_delete(g, done) ==
    LET r == get_redis(g, reachable)
        cache_failed == r.status # "ok" \/ done < 2
        status == RemovalOutcome(cache_failed)
    IN  /\ g \in db.groups
        /\ IF r.status = "ok"
           THEN RemoveGroupCommands(g, done)
           ELSE UNCHANGED <<member, location, ttl>>
        /\ db' = IF status = "success"
                 THEN [groups |-> db.groups \ {g},
                       memberships |-> [db.memberships EXCEPT ![g] = {}]]
                 ELSE db
        /\ lastRequest' = RequestRecord("delete", g, "u1", status, cache_failed)
        /\ lastCall' = NoCall
        /\ UNCHANGED <<reachable, inflight, nupdates, calls, wsVars>>

\* DELETE /groups/{group_uuid}/leave
api_leave_group(g, u, done) ==
    LET r == get_redis(g, reachable)
        cache_failed == r.status # "ok" \/ done < 2
        status == RemovalOutcome(cache_failed)
    IN  /\ g \in db.groups
        /\ u \in db.memberships[g]
        /\ IF r.status = "ok"
           THEN RemoveMemberCommands(g, u, done)
           ELSE UNCHANGED <<member, location, ttl>>
        /\ db' = IF status = "success"
                 THEN [db EXCEPT !.memberships[g] = @ \ {u}]
                 ELSE db
        /\ lastRequest' = RequestRecord("leave_group", g, u, status, cache_failed)
        /\ lastCall' = NoCall
        /\ UNCHANGED <<reachable, inflight, nupdates, calls, wsVars>>

\* DELETE /groups/{group_uuid}/kick/{member_uuid}; kick_member raises for a
\* user without a membership, after the cache removal.
api_kick_user(g, u, done) ==
    LET r == get_redis(g, reachable)
        cache_failed == r.status # "ok" \/ done < 2
        status == IF u \in db.memberships[g] THEN RemovalOutcome(cache_failed)
                  ELSE "error"
    IN  /\ g \in db.groups
        /\ IF r.status = "ok"
           THEN RemoveMemberCommands(g, u, done)
           ELSE UNCHANGED <<member, location, ttl>>
        /\ db' = IF status = "success"
                 THEN [db EXCEPT !.memberships[g] = @ \ {u}]
                 ELSE db
        /\ lastRequest' = RequestRecord("kick_user", g, u, status, cache_failed)
        /\ lastCall' = NoCall
        /\ UNCHANGED <<reachable, inflight, nupdates, calls, wsVars>>

(***************************************************************************)
(* Websocket sessions: group_ws, handle_websocket_message, the connection  *)
(* registry and the listener task of each session.                         *)
(***************************************************************************)
NewSession ==
    [pc |-> "new", user |-> "u1", group |-> G1, client |-> 0, close_code |-> 0,
     served_without_relay |-> FALSE, listener |-> "none", cancelled |-> FALSE,
     inbox |-> <<>>, owed |-> <<>>, received |-> <<>>, relayed_after_loss |-> FALSE,
     error |-> "none", token_ok |-> TRUE]

\* The {"error": ...} messages a session sends; error is the last one sent.
NoLongerMember == "You are no longer a member of this group"
RedisUnavailable == "Redis server is temporarily unavailable. Please try again."
MissingData == "Missing data"

\* Close codes: websocket.close(code=1008), and websocket.close()'s default.
PolicyViolation == 1008
NormalClosure == 1000

\* ensure_user_is_member_of_group: the membership check a connection or a
\* location request passes before it gets its GroupCacheService.
ensure_user_is_member_of_group(s, g, u) == is_member(s, g, u)

\* A disconnect that leaves the registry as it is.
ConnectionManagerKeep(conns, key, ws) == conns

\* A connect that registers the socket under every key.
ConnectionManagerConnectAll(conns, key, ws) == [k \in DOMAIN conns |-> conns[k] \cup {ws}]

\* ConnectionManager.connect / disconnect
ConnectionManagerConnect(conns, key, ws) == [conns EXCEPT ![key] = @ \cup {ws}]
ConnectionManagerDisconnect(conns, key, ws) == [conns EXCEPT ![key] = @ \ {ws}]

\* listener_task.cancel(): a request; a task that has ended ignores it.
ListenerTaskCancel(sx) ==
    IF sx.listener \in {"created", "subscribed"}
    THEN [sx EXCEPT !.cancelled = TRUE]
    ELSE sx

\* The finally block of group_ws, after which the handler has ended.
GroupWsFinally(x, sx) ==
    /\ sessions' = [sessions EXCEPT ![x] = [ListenerTaskCancel(sx) EXCEPT !.pc = "closed"]]
    /\ active_connections' = ConnectionManagerDisconnect(active_connections, sx.group, x)

\* A credential check that lets every connection through.
TokenAlwaysAccepted(token_ok) == [ok |-> TRUE, close_code |-> 0]

\* get_token_data_ws: a missing authorization header or a token that does
\* not decode closes the socket with 1008 and raises.
get_token_data_ws(token_ok) ==
    IF token_ok
    THEN [ok |-> TRUE, close_code |-> 0]
    ELSE [ok |-> FALSE, close_code |-> PolicyViolation]

\* Lines 20-32 of group_ws: get_token_data_ws, get_redis,
\* ensure_user_is_member_of_group, connection_manager.connect and
\* asyncio.create_task.  A connection without a valid token, without a
\* shard or of a non-member ends before it is accepted.  Sessions are
\* numbered in the order in which they connect.
ws_connect(x, u, g, token_ok) ==
    LET r == get_redis(g, reachable)
        sx == [sessions[x] EXCEPT !.user = u, !.group = g, !.token_ok = token_ok]
        token_data == get_token_data_ws(token_ok)
        accepted == token_data.ok /\ r.status = "ok"
                        /\ ensure_user_is_member_of_group(r.client, g, u)
    IN  /\ sessions[x].pc = "new"
        /\ \A y \in Sessions : y < x => sessions[y].pc # "new"
        /\ sessions' = [sessions EXCEPT ![x] =
               IF ~token_data.ok
               THEN [sx EXCEPT !.pc = "closed", !.close_code = token_data.close_code]
               ELSE IF r.status # "ok"
               THEN [sx EXCEPT !.pc = "closed"]
               ELSE IF ~ensure_user_is_member_of_group(r.client, g, u)
               THEN [sx EXCEPT !.pc = "closed", !.close_code = PolicyViolation]
               ELSE [sx EXCEPT !.pc = "registered", !.client = r.client,
                               !.listener = "created"]]
        /\ active_connections' =
               IF accepted
               THEN ConnectionManagerConnect(active_connections, g, x)
               ELSE active_connections
        /\ lastCall' = NoCall
        /\ UNCHANGED <<reachable, cacheVars, calls, apiVars>>

\* Lines 35-40: the first send, of get_group_locations.  An unreachable shard
\* raises a connection error, caught outside the loop: the handler ends.
ws_snapshot(x) ==
    /\ sessions[x].pc = "registered"
    /\ IF reachable[sessions[x].client]
       THEN /\ sessions' = [sessions EXCEPT ![x].pc = "loop"]
            /\ UNCHANGED active_connections
       ELSE GroupWsFinally(x, [sessions[x] EXCEPT !.error = RedisUnavailable])
    /\ lastCall' = NoCall
    /\ UNCHANGED <<reachable, cacheVars, calls, apiVars>>

\* websocket.receive_json raising WebSocketDisconnect, or the first send
\* failing because the client is gone.
ws_client_disconnect(x) ==
    /\ sessions[x].pc \in {"registered", "loop"}
    /\ GroupWsFinally(x, sessions[x])
    /\ lastCall' = NoCall
    /\ UNCHANGED <<reachable, cacheVars, calls, apiVars>>

\* ConnectionManager.broadcast(key, message), one await at a time.  The loop
\* runs over list(self.active_connections[key]), a copy taken when the
\* call starts; lastRequest holds the call: the copy, the sessions still to
\* visit, those that got the message and those whose send raised.
BroadcastRecord(g, targets, pending, delivered, failed, status) ==
    [op |-> "broadcast", group |-> g, targets |-> targets, pending |-> pending,
     delivered |-> delivered, failed |-> failed, status |-> status]

broadcast_start(g) ==
    /\ lastRequest.op = "broadcast" => lastRequest.status = "returned"
    /\ lastRequest' = BroadcastRecord(g, active_connections[g], active_connections[g],
                                      {}, {}, "running")
    /\ lastCall' = NoCall
    /\ UNCHANGED <<reachable, cacheVars, calls, wsVars, db>>

\* One iteration: ws.send_json(message); except Exception: disconnect.
\* A send to a socket whose handler has ended raises; send_ok is whether a
\* send to a live socket goes through.
broadcast_send(x, send_ok) ==
    LET b == lastRequest
        sent == send_ok /\ sessions[x].pc # "closed"
    IN  /\ b.op = "broadcast"
        /\ b.status = "running"
        /\ x \in b.pending
        /\ lastRequest' = [b EXCEPT !.pending = @ \ {x},
                                    !.delivered = IF sent THEN @ \cup {x} ELSE @,
                                    !.failed = IF sent THEN @ ELSE @ \cup {x}]
        /\ active_connections' =
               IF sent THEN active_connections
               ELSE ConnectionManagerDisconnect(active_connections, b.group, x)
        /\ lastCall' = NoCall
        /\ UNCHANGED <<reachable, cacheVars, calls, sessions, db>>

\* The loop is over: broadcast returns None.
broadcast_return ==
    /\ lastRequest.op = "broadcast"
    /\ lastRequest.status = "running"
    /\ lastRequest.pending = {}
    /\ lastRequest' = [lastRequest EXCEPT !.status = "returned"]
    /\ lastCall' = NoCall
    /\ UNCHANGED <<reachable, cacheVars, calls, wsVars, db>>

\* WebSocketRequest: action, and data (absent, or a location).
WebSocketRequest(action, data) == [action |-> action, data |-> data]

\* What handle_websocket_message sends to its own client for a message of
\* a member (lines 23-45): the locations, a pong, the missing-data error,
\* and nothing after update_location_and_publish or for another action.
HandlerReply(message) ==
    IF message.action = "get_locations" THEN "group_locations"
    ELSE IF message.action = "ping" THEN "pong"
    ELSE IF message.action = "update_location" /\ message.data = {} THEN MissingData
    ELSE "none"

\* One inbound message: receive_json and handle_websocket_message.
\* served_without_relay records that a message was handled after the
\* session's listener task had ended.  A connection error of the shard
\* leaves the while loop (the except clause is outside it): error message,
\* finally, and the handler returns, which closes the socket.
ws_receive(x, message) ==
    LET sx == sessions[x]
        s == sx.client
        g == sx.group
        hx == [sx EXCEPT !.served_without_relay = @ \/ sx.listener = "done"]
    IN  /\ sx.pc = "loop"
        /\ IF ~reachable[s]
           THEN \* is_exists raises a connection error: outer except, finally
                /\ GroupWsFinally(x, [hx EXCEPT !.error = RedisUnavailable])
                /\ lastCall' = NoCall
                /\ UNCHANGED cacheVars
           ELSE IF ~is_exists(s, g) \/ ~is_member(s, g, sx.user)
           THEN \* error message, websocket.close(), return; the next
                \* receive_json raises on the closed socket: finally
                /\ GroupWsFinally(x, [hx EXCEPT !.close_code = NormalClosure,
                                               !.error = NoLongerMember])
                /\ lastCall' = NoCall
                /\ UNCHANGED cacheVars
           ELSE IF message.action = "update_location" /\ message.data # {}
           THEN /\ nupdates < MaxPublishes
                /\ nupdates' = nupdates + 1
                /\ \E req \in message.data :
                       RunUpdateScript("update_location_and_publish", TRUE, s, g,
                                       sx.user, req, [sessions EXCEPT ![x] = hx])
                /\ UNCHANGED <<member, inflight, active_connections>>
           ELSE /\ sessions' = [sessions EXCEPT ![x] =
                       IF HandlerReply(message) = MissingData
                       THEN [hx EXCEPT !.error = MissingData]
                       ELSE hx]
                /\ lastCall' = NoCall
                /\ UNCHANGED <<cacheVars, active_connections>>
        /\ UNCHANGED <<reachable, calls, apiVars>>

\* The listener task starts: pubsub.subscribe (lines 175-176).
listener_start(x) ==
    /\ sessions[x].listener = "created"
    /\ ~sessions[x].cancelled
    /\ sessions' = [sessions EXCEPT ![x].listener =
                       IF reachable[sessions[x].client] THEN "subscribed" ELSE "done"]
    /\ lastCall' = NoCall
    /\ UNCHANGED <<reachable, cacheVars, calls, apiVars, active_connections>>

\* One message through the loop (lines 179-187): get_message, send_json.
\* A failed send ends the task through its finally block.
listener_relay(x, send_ok) ==
    LET sx == sessions[x]
        m == Head(sx.inbox)
    IN  /\ sx.listener = "subscribed"
        /\ ~sx.cancelled
        /\ reachable[sx.client]
        /\ sx.inbox # <<>>
        /\ sessions' = [sessions EXCEPT ![x] =
               IF send_ok
               THEN [sx EXCEPT !.inbox = Tail(@),
                               !.received = Append(@, m.id),
                               !.relayed_after_loss = @ \/ m.after_loss]
               ELSE [sx EXCEPT !.listener = "done", !.inbox = <<>>]]
        /\ lastCall' = NoCall
        /\ UNCHANGED <<reachable, cacheVars, calls, apiVars, active_connections>>

\* get_message raises because the shard is unreachable: finally, task ended.
listener_fail(x) ==
    /\ sessions[x].listener = "subscribed"
    /\ ~sessions[x].cancelled
    /\ ~reachable[sessions[x].client]
    /\ sessions' = [sessions EXCEPT ![x] = [@ EXCEPT !.listener = "done", !.inbox = <<>>]]
    /\ lastCall' = NoCall
    /\ UNCHANGED <<reachable, cacheVars, calls, apiVars, active_connections>>

\* The cancellation reaches the task: a task never started does not run, a
\* subscribed one leaves through finally (unsubscribe, close).
listener_cancelled(x) ==
    /\ sessions[x].listener \in {"created", "subscribed"}
    /\ sessions[x].cancelled
    /\ sessions' = [sessions EXCEPT ![x] = [@ EXCEPT !.listener = "done", !.inbox = <<>>]]
    /\ lastCall' = NoCall
    /\ UNCHANGED <<reachable, cacheVars, calls, apiVars, active_connections>>

(***************************************************************************)
(* The cache service under concurrent callers, all shards reachable.       *)
(***************************************************************************)
Init ==
    /\ reachable = [s \in Shards |-> TRUE]
    /\ member = [s \in Shards |-> [g \in Groups |-> {}]]
    /\ location = [s \in Shards |-> [g \in Groups |-> EmptyHash]]
    /\ inflight = {}
    /\ nupdates = 0
    /\ lastCall = NoCall
    /\ calls = [c \in Callers |-> IdleCall]
    /\ sessions = [x \in Sessions |-> NewSession]
    /\ active_connections = [g \in Groups |-> {}]
    /\ ttl = [s \in Shards |-> [g \in Groups |-> [member |-> 0, location |-> 0]]]
    /\ db = [groups |-> {}, memberships |-> [g \in Groups |-> {}]]
    /\ lastRequest = NoRequest

\* The groups whose members report locations; membership changes in all.
UpdatedGroups == {G1}

Next ==
    \/ \E g \in Groups, u \in Users : add_member(g, u)
    \/ \E g \in Groups, ms \in SUBSET Users : sync_group(g, ms)
    \/ \E g \in UpdatedGroups, u \in Users, req \in Requests : update_location(g, u, req)
    \/ \E g \in UpdatedGroups, u \in Users, req \in Requests :
           update_location_and_publish(g, u, req)
    \/ \E g \in Groups, u \in Users : remove_member_srem(g, u)
    \/ \E c \in inflight : remove_member_hdel(c)
    \/ \E g \in Groups : remove_group_del_member(g)
    \/ \E c \in inflight : remove_group_del_location(c)

Spec == Init /\ [][Next]_vars

(***************************************************************************)
(* Shard selection under shards that fail and recover.                     *)
(***************************************************************************)
NextRouter ==
    \/ \E c \in Callers, key \in Keys : get_redis_start(c, key)
    \/ \E c \in Callers : get_redis_probe(c)
    \/ \E c \in Callers : get_redis_done(c)
    \/ \E s \in Shards : ShardDown(s)
    \/ \E s \in Shards : ShardUp(s)

SpecRouter == Init /\ [][NextRouter]_vars

(***************************************************************************)
(* Websocket sessions beside membership changes and shard outages.         *)
(***************************************************************************)
\* The membership lost while sessions run: u1 leaves, or is kicked from, G1.
KickedFrom == {G1}
KickedUsers == {"u1"}
SessionRequests == {GroupUpdateLocationRequest(<<10, 106>>, n) : n \in Timestamps}
SessionMessages ==
    {WebSocketRequest("get_locations", {}), WebSocketRequest("ping", {})}
    \cup {WebSocketRequest("update_location", {req}) : req \in SessionRequests}
\* The shard whose outages the sessions see: the one G1 hashes to.
FailingShards == {get_server_index(G1, NumShards)}

NextSession ==
    \/ \E x \in Sessions, u \in Users, g \in Groups, token_ok \in BOOLEAN :
           ws_connect(x, u, g, token_ok)
    \/ \E x \in Sessions : ws_snapshot(x)
    \/ \E x \in Sessions : ws_client_disconnect(x)
    \/ \E x \in Sessions, m \in SessionMessages : ws_receive(x, m)
    \/ \E x \in Sessions : listener_start(x)
    \/ \E x \in Sessions, send_ok \in BOOLEAN : listener_relay(x, send_ok)
    \/ \E x \in Sessions : listener_fail(x)
    \/ \E x \in Sessions : listener_cancelled(x)
    \/ \E g \in KickedFrom, u \in KickedUsers : remove_member_srem(g, u)
    \/ \E c \in inflight : remove_member_hdel(c)
    \/ \E s \in FailingShards : ShardDown(s)
    \/ \E s \in FailingShards : ShardUp(s)

\* Every user has joined every group: add_member(g, u) has run for each.
InitSession ==
    /\ reachable = [s \in Shards |-> TRUE]
    /\ member = [s \in Shards |-> [g \in Groups |->
                    IF s = get_redis(g, reachable).client THEN Users ELSE {}]]
    /\ location = [s \in Shards |-> [g \in Groups |-> EmptyHash]]
    /\ inflight = {}
    /\ nupdates = 0
    /\ lastCall = NoCall
    /\ calls = [c \in Callers |-> IdleCall]
    /\ sessions = [x \in Sessions |-> NewSession]
    /\ active_connections = [g \in Groups |-> {}]
    /\ ttl = [s \in Shards |-> [g \in Groups |->
                 [member |-> Expire(s = get_redis(g, reachable).client), location |-> 0]]]
    /\ db = [groups |-> Groups, memberships |-> [g \in Groups |-> Users]]
    /\ lastRequest = NoRequest

SpecSession == InitSession /\ [][NextSession]_vars

\* The event loop delivers a requested cancellation: the listener waits on
\* get_message for at most its poll timeout, so a cancelled task is resumed.
SpecSessionFair ==
    SpecSession /\ \A x \in Sessions : WF_vars(listener_cancelled(x))

(***************************************************************************)
(* Broadcasts to the registry while sessions connect and go away.          *)
(***************************************************************************)
NextBroadcast ==
    \/ \E x \in Sessions, u \in Users, g \in Groups : ws_connect(x, u, g, TRUE)
    \/ \E x \in Sessions : ws_snapshot(x)
    \/ \E x \in Sessions : ws_client_disconnect(x)
    \/ \E g \in Groups : broadcast_start(g)
    \/ \E x \in Sessions, send_ok \in BOOLEAN : broadcast_send(x, send_ok)
    \/ broadcast_return

SpecBroadcast == InitSession /\ [][NextBroadcast]_vars

(***************************************************************************)
(* Location calls on a hash that another writer has written to.            *)
(***************************************************************************)
NextCorrupt ==
    \/ \E g \in UpdatedGroups, u \in Users : external_hset(g, u)
    \/ \E g \in UpdatedGroups, u \in Users, req \in Requests : update_location(g, u, req)
    \/ \E g \in UpdatedGroups, u \in Users, req \in Requests :
           update_location_and_publish(g, u, req)
    \/ \E g \in UpdatedGroups : api_get_locations(g)

SpecCorrupt == Init /\ [][NextCorrupt]_vars

(***************************************************************************)
(* get_server_index on its own: keys and counts, valid and invalid.        *)
(***************************************************************************)
HashKeys == {G1, G2, DocKey}
ServerCounts == (0 - MaxInvalid) .. MaxServers

NextHash ==
    \E key \in HashKeys, num_servers \in ServerCounts :
        get_server_index_call(key, num_servers)

SpecHash == Init /\ [][NextHash]_vars

(***************************************************************************)
(* get_redis called with any key, with and without initialised clients.    *)
(***************************************************************************)
InvalidKeys == {"invalid-uuid", ""}
ClientLists == {{}, Shards}

NextGuard ==
    \/ \E key \in Keys \cup InvalidKeys, clients \in ClientLists :
           get_redis_call(key, clients)
    \/ \E s \in Shards : ShardDown(s)
    \/ \E s \in Shards : ShardUp(s)

SpecGuard == Init /\ [][NextGuard]_vars

(***************************************************************************)
(* Location updates of every user in every group.                          *)
(***************************************************************************)
NextFrame ==
    \/ \E g \in Groups, u \in Users, req \in Requests : update_location(g, u, req)
    \/ \E g \in Groups, u \in Users, req \in Requests :
           update_location_and_publish(g, u, req)

SpecFrame == Init /\ [][NextFrame]_vars

(***************************************************************************)
(* Location updates beside removals, command by command.                   *)
(***************************************************************************)
NextRace ==
    \/ \E g \in UpdatedGroups, u \in Users : add_member(g, u)
    \/ \E g \in UpdatedGroups, u \in Users, req \in SessionRequests :
           location_request_check(g, u, req)
    \/ location_request_eval
    \/ \E g \in UpdatedGroups, u \in Users : remove_member_srem(g, u)
    \/ \E c \in inflight : remove_member_hdel(c)
    \/ \E g \in UpdatedGroups : remove_group_del_member(g)
    \/ \E c \in inflight : remove_group_del_location(c)

SpecRace == Init /\ [][NextRace]_vars

(***************************************************************************)
(* The group endpoints under shards that fail and recover.                 *)
(***************************************************************************)
CommandsDone == 0 .. 2

NextApi ==
    \/ \E g \in Groups, u \in Users, cache_ok \in BOOLEAN : api_create(g, u, cache_ok)
    \/ \E g \in Groups, u \in Users, cache_ok \in BOOLEAN : api_join_group(g, u, cache_ok)
    \/ \E g \in Groups, done \in CommandsDone : api_delete(g, done)
    \/ \E g \in Groups, u \in Users, done \in CommandsDone : api_leave_group(g, u, done)
    \/ \E g \in Groups, u \in Users, done \in CommandsDone : api_kick_user(g, u, done)
    \/ \E s \in Shards : ShardDown(s)
    \/ \E s \in Shards : ShardUp(s)

SpecApi == Init /\ [][NextApi]_vars

(***************************************************************************)
(* The cache service while time passes and keys expire.                    *)
(***************************************************************************)
\* One unit of time passes on the shards: every key with a lifetime ages,
\* and a key whose lifetime ends is deleted.
Tick ==
    /\ \E s \in Shards, g \in Groups : ttl[s][g].member > 0 \/ ttl[s][g].location > 0
    /\ ttl' = [s \in Shards |-> [g \in Groups |->
                  [member |-> IF ttl[s][g].member > 0 THEN ttl[s][g].member - 1 ELSE 0,
                   location |-> IF ttl[s][g].location > 0 THEN ttl[s][g].location - 1
                                ELSE 0]]]
    /\ member' = [s \in Shards |-> [g \in Groups |->
                     IF ttl[s][g].member = 1 THEN {} ELSE member[s][g]]]
    /\ location' = [s \in Shards |-> [g \in Groups |->
                       IF ttl[s][g].location = 1 THEN EmptyHash ELSE location[s][g]]]
    /\ lastCall' = NoCall
    /\ UNCHANGED <<reachable, inflight, nupdates, calls, wsVars, apiVars>>

NextTtl ==
    \/ \E g \in UpdatedGroups, u \in Users : add_member(g, u)
    \/ \E g \in UpdatedGroups, ms \in SUBSET Users : sync_group(g, ms)
    \/ \E g \in UpdatedGroups : sync_group_empty(g)
    \/ \E g \in UpdatedGroups, u \in Users, req \in Requests : update_location(g, u, req)
    \/ \E g \in UpdatedGroups, u \in Users, req \in Requests :
           update_location_and_publish(g, u, req)
    \/ \E g \in UpdatedGroups, u \in Users : remove_member_srem(g, u)
    \/ \E c \in inflight : remove_member_hdel(c)
    \/ Tick

SpecTtl == Init /\ [][NextTtl]_vars

(***************************************************************************)
(* Concurrent update_location_and_publish calls seen by subscribed         *)
(* sessions whose listeners have not yet read their connection.            *)
(***************************************************************************)
NextPublish ==
    \/ \E x \in Sessions, u \in Users, g \in Groups, token_ok \in BOOLEAN :
           ws_connect(x, u, g, token_ok)
    \/ \E x \in Sessions : listener_start(x)
    \/ \E g \in UpdatedGroups, u \in Users, req \in Requests :
           update_location_and_publish(g, u, req)

SpecPublish == InitSession /\ [][NextPublish]_vars

(***************************************************************************)
(* Claims.                                                                 *)
(***************************************************************************)
Max(S) == CHOOSE x \in S : \A y \in S : y <= x

\* The calls that are location updates.
UpdateOps == {"update_location", "update_location_and_publish"}

\* The instant a stored location text carries in its "timestamp" field.
TimestampOf(text) == JsonLoads(text).timestamp.val

\* The most recent location update arrived with a timestamp not newer than
\* the one of the record stored for its (group, user).
LastCallStale ==
    /\ lastCall.op \in UpdateOps
    /\ \E b \in lastCall.before : TimestampOf(b) >= lastCall.ts

\* C1: of two location updates for one (group, user), the one with the
\* greater timestamp is the record stored at the end, whichever arrives
\* last: after an update the stored record carries the greater of the
\* update's timestamp and the timestamp stored before it.
C1_LatestTimestampStored ==
    lastCall.op \in UpdateOps =>
        \A a \in lastCall.after :
            TimestampOf(a) = Max({lastCall.ts} \cup {TimestampOf(b) : b \in lastCall.before})

\* C2: a location update whose timestamp is less than or equal to the stored
\* record's timestamp returns 0 (not applied) and leaves the stored record as
\* it was.
C2_StaleUpdateNotApplied ==
    LastCallStale => (lastCall.ret = 0 /\ lastCall.after = lastCall.before)

\* The publish numbers of the messages waiting in a listener's connection.
InboxIds(inbox) == [i \in DOMAIN inbox |-> inbox[i].id]

\* How many messages numbered id wait in inbox.
CountId(inbox, id) == Cardinality({i \in DOMAIN inbox : inbox[i].id = id})

IsPrefix(a, b) == Len(a) <= Len(b) /\ \A i \in DOMAIN a : a[i] = b[i]

\* C3: an update_location_and_publish call that is applied hands its event
\* exactly once to each session subscribed to the group's channel at the
\* time of the publish and to no session of another group; a session relays
\* the events handed to it in order, none twice, and one whose listener is
\* still subscribed has lost none.
C3_OneEventPerSubscriber ==
    /\ (lastCall.op = "update_location_and_publish" /\ lastCall.ret = 1) =>
           \A x \in Sessions :
               LET sx == sessions[x]
               IN  IF /\ sx.listener = "subscribed"
                      /\ sx.group = lastCall.group
                      /\ sx.client = lastCall.shard
                   THEN /\ CountId(sx.inbox, nupdates) = 1
                        /\ sx.inbox[Len(sx.inbox)].id = nupdates
                        /\ sx.inbox[Len(sx.inbox)].data = lastCall.published[1]
                   ELSE CountId(sx.inbox, nupdates) = 0
    /\ \A x \in Sessions :
           LET sx == sessions[x]
               seen == sx.received \o InboxIds(sx.inbox)
           IN  /\ IsPrefix(sx.received, sx.owed)
               /\ \A i, j \in DOMAIN seen : seen[i] = seen[j] => i = j
               /\ sx.listener = "subscribed" => seen = sx.owed

\* C3 witness: a session has relayed the one event of its group while a
\* subscribed session of the other group was handed nothing.
C3_Witness ==
    \E x, y \in Sessions :
        /\ sessions[x].received = <<1>>
        /\ sessions[x].pc = "loop"
        /\ sessions[y].group # sessions[x].group
        /\ sessions[y].listener = "subscribed"
        /\ sessions[y].owed = <<>>
        /\ sessions[y].inbox = <<>>

\* C4: update_location_and_publish publishes exactly when its write is
\* applied: nothing for a call whose timestamp is not newer than the stored
\* one, and otherwise exactly the payload it stored.
C4_PublishIffApplied ==
    lastCall.op = "update_location_and_publish" =>
        /\ LastCallStale => lastCall.published = <<>>
        /\ (lastCall.ret = 1) <=> (lastCall.published # <<>>)
        /\ \A i \in DOMAIN lastCall.published :
               lastCall.after = {lastCall.published[i]}

\* C5: every mutating operation takes effect in one step: a step that takes a
\* user out of a membership set leaves no location entry of that user
\* behind, and a step that deletes a membership set leaves no location hash.
C5_MutationsAtomic ==
    [][\A s \in Shards, g \in Groups, u \in Users :
          (u \in member[s][g] /\ u \notin member'[s][g])
              => u \notin DOMAIN location'[s][g]]_vars

\* The shard indices a call has pinged, in order.
ProbedIdx(call) == [i \in DOMAIN call.probes |-> call.probes[i].idx]

\* C6: get_redis returns the first reachable shard in the cyclic order
\* primary, primary + 1, ...: the shards are pinged in that order, each at
\* most once, the client returned is the one whose ping succeeded, every
\* ping before it failed, and a failed ping is always followed by a try of
\* the next shard while shards remain.
C6_FirstReachableInCyclicOrder ==
    \A c \in Callers :
        LET call == calls[c]
            n == Len(call.probes)
            primary == get_server_index(call.key, NumShards)
        IN  /\ \A i \in 1 .. n : call.probes[i].idx = (primary + i - 1) % NumShards
            /\ call.pc = "returned" =>
                   /\ n >= 1
                   /\ call.probes[n].ok
                   /\ call.client = call.probes[n].idx
                   /\ \A i \in 1 .. (n - 1) : ~call.probes[i].ok
            /\ (n >= 1 /\ n < NumShards /\ ~call.probes[n].ok) =>
                   /\ call.pc = "probe"
                   /\ call.server_idx = (call.probes[n].idx + 1) % NumShards

\* C7: a call that ends after failed pings only ends with the
\* no-available-shard error, after exactly one ping of each shard.
C7_AllFailRaisesNoAvailable ==
    \A c \in Callers :
        LET call == calls[c]
        IN  (call.pc = "raised" /\ \A i \in DOMAIN call.probes : ~call.probes[i].ok) =>
                /\ call.error = "NoAvailableRedisServers"
                /\ Len(call.probes) = NumShards
                /\ \A s \in Shards : \E i \in DOMAIN call.probes : call.probes[i].idx = s

\* C8: a session that has ended, by whichever exit, is out of the connection
\* registry of its group and its listener task has ended or has been
\* cancelled, and the cancelled listener then ends (unsubscribes): no ended
\* session stays registered or subscribed.
C8_EndedSessionReleased ==
    /\ [](\A x \in Sessions :
             sessions[x].pc = "closed" =>
                 /\ \A g \in Groups : x \notin active_connections[g]
                 /\ \/ sessions[x].listener \in {"none", "done"}
                    \/ sessions[x].cancelled)
    /\ \A x \in Sessions :
           (sessions[x].pc = "closed") ~> (sessions[x].listener \in {"none", "done"})

\* C8 witness: a session evicted after its user lost membership has ended,
\* and the cancellation has stopped its subscribed listener.
C8_Witness ==
    \E x \in Sessions :
        /\ sessions[x].pc = "closed"
        /\ sessions[x].close_code = NormalClosure
        /\ sessions[x].cancelled
        /\ sessions[x].listener = "done"

\* C9: the inbound loop and the listener of a session end together: no
\* session handles an inbound message after its listener has ended.
C9_LoopAndRelayEndTogether ==
    \A x \in Sessions : ~sessions[x].served_without_relay

\* C10: no event published after a user lost membership of the group is
\* relayed to that user's session.
C10_NoRelayAfterMembershipLoss ==
    \A x \in Sessions : ~sessions[x].relayed_after_loss

\* C11: a session whose inbound message found its user out of the cached
\* membership set has been sent the error message and its socket is closed
\* with the policy-violation code 1008.
C11_EvictionClosesWithPolicyViolation ==
    \A x \in Sessions :
        sessions[x].error = NoLongerMember =>
            (sessions[x].pc = "closed" /\ sessions[x].close_code = PolicyViolation)

\* C12: a session that answered a shard connection error with the
\* retryable error message stays subscribed: still in its loop, registered,
\* its listener not cancelled.
C12_ShardErrorKeepsSession ==
    \A x \in Sessions :
        sessions[x].error = RedisUnavailable =>
            /\ sessions[x].pc \in {"registered", "loop"}
            /\ x \in active_connections[sessions[x].group]
            /\ ~sessions[x].cancelled

\* C13: a connection whose credential is missing or invalid is closed with
\* code 1008, is never in the connection registry, and no listener task is
\* ever created or subscribed for it.
C13_BadTokenNeverSubscribed ==
    \A x \in Sessions :
        (sessions[x].pc # "new" /\ ~sessions[x].token_ok) =>
            /\ sessions[x].pc = "closed"
            /\ sessions[x].close_code = PolicyViolation
            /\ \A g \in Groups : x \notin active_connections[g]
            /\ sessions[x].listener = "none"
            /\ sessions[x].owed = <<>>
            /\ sessions[x].received = <<>>

\* C13 witness: a connection with a bad credential was closed while another
\* session of the same group is subscribed and has been handed an event.
C13_Witness ==
    \E x, y \in Sessions :
        /\ sessions[x].pc = "closed"
        /\ ~sessions[x].token_ok
        /\ sessions[y].group = sessions[x].group
        /\ sessions[y].owed # <<>>

\* The shard the calls for group g go to while every shard is reachable.
ShardOf(g) == get_redis(g, reachable).client

\* C14: add_member is idempotent: a call for a user who is already in the
\* membership set changes nothing, and any call leaves the user in the set
\* once and the other members as they were.
C14_AddMemberIdempotent ==
    [][\A g \in Groups, u \in Users :
          add_member(g, u) =>
              /\ Cardinality({v \in member'[ShardOf(g)][g] : v = u}) = 1
              /\ member'[ShardOf(g)][g] \ {u} = member[ShardOf(g)][g] \ {u}
              /\ u \in member[ShardOf(g)][g] => member' = member]_vars

\* C14 witness: add_member has run for a user who was already a member of
\* a group that has another member.
C14_Witness ==
    /\ lastCall.op = "add_member"
    /\ lastCall.before = {lastCall.user}
    /\ member[lastCall.shard][lastCall.group] = Users

\* C15: after add_member(g, u) the user is a member; after the user is
\* removed while other members remain the user is no member and the group
\* still exists.
C15_MemberThenRemoved ==
    [][\A g \in Groups, u \in Users :
          /\ add_member(g, u) => is_member(ShardOf(g), g, u)'
          /\ (remove_member_srem(g, u) /\ member[ShardOf(g)][g] \ {u} # {}) =>
                 (~is_member(ShardOf(g), g, u)' /\ is_exists(ShardOf(g), g)')]_vars

\* C15 witness: remove_member has completed for a user who had been added,
\* the user is no member and the other member keeps the group in existence.
C15_Witness ==
    /\ lastCall.op = "remove_member"
    /\ lastCall.before = {lastCall.user}
    /\ ~is_member(lastCall.shard, lastCall.group, lastCall.user)
    /\ is_exists(lastCall.shard, lastCall.group)

\* C16: remove_member(g, u) takes u out of the membership set and deletes
\* u's location entry, leaves every other member and every other location
\* entry as it was, and returns true exactly when u was in the set.
C16_RemoveMemberEffect ==
    [][/\ \A g \in Groups, u \in Users :
             remove_member_srem(g, u) =>
                 /\ member' = [member EXCEPT ![ShardOf(g)][g] = @ \ {u}]
                 /\ location' = location
                 /\ \A c \in inflight' \ inflight :
                        c.removed <=> u \in member[ShardOf(g)][g]
       /\ \A c \in inflight :
             remove_member_hdel(c) =>
                 /\ c.user \notin DOMAIN location'[c.shard][c.group]
                 /\ \A s \in Shards, g \in Groups : \A v \in DOMAIN location[s][g] :
                        <<s, g, v>> # <<c.shard, c.group, c.user>> =>
                            /\ v \in DOMAIN location'[s][g]
                            /\ location'[s][g][v] = location[s][g][v]
                 /\ member' = member
                 /\ (lastCall'.ret = 1) <=> c.removed]_vars

\* C16 witness: remove_member has returned true for a user whose location
\* entry is gone while the other user's entry is still stored.
C16_Witness ==
    /\ lastCall.op = "remove_member"
    /\ lastCall.ret = 1
    /\ lastCall.user \notin member[lastCall.shard][lastCall.group]
    /\ lastCall.user \notin DOMAIN location[lastCall.shard][lastCall.group]
    /\ DOMAIN location[lastCall.shard][lastCall.group] # {}

\* C17: remove_group(g) deletes the membership set (the group does not
\* exist and nobody is a member) and the location hash (no location is
\* listed).
C17_RemoveGroupEffect ==
    [][/\ \A g \in Groups :
             remove_group_del_member(g) =>
                 /\ ~is_exists(ShardOf(g), g)'
                 /\ \A u \in Users : ~is_member(ShardOf(g), g, u)'
       /\ \A c \in inflight :
             remove_group_del_location(c) =>
                 /\ get_group_locations(c.shard, c.group)' = {}
                 /\ member' = member]_vars

\* C17 witness: remove_group has completed for a group that had members:
\* the group does not exist and lists no location.
C17_Witness ==
    /\ lastCall.op = "remove_group"
    /\ lastCall.before # {}
    /\ ~is_exists(lastCall.shard, lastCall.group)
    /\ \A u \in Users : ~is_member(lastCall.shard, lastCall.group, u)
    /\ get_group_locations(lastCall.shard, lastCall.group) = {}

\* C18: after an applied update, the locations listed for the group hold a
\* record of the user whose latitude, longitude, timestamp and extra fields
\* are the values that were submitted.
C18_RoundTrip ==
    (lastCall.op \in UpdateOps /\ lastCall.ret = 1) =>
        \A data \in LocationBodies :
            lastCall.payload = {JsonDumps(Payload(lastCall.user, ValidateLocation(data)))} =>
                \E r \in get_group_locations(lastCall.shard, lastCall.group) :
                    /\ r.user_uuid = lastCall.user
                    /\ r.latitude = data.latitude
                    /\ r.longitude = data.longitude
                    /\ r.timestamp = data.timestamp
                    /\ \A f \in ExtraFields : f \in DOMAIN r /\ r[f] = data[f]

\* C19: every applied write stores a timestamp strictly greater than the
\* one it replaces.
C19_TimestampStrictlyIncreases ==
    (lastCall.op \in UpdateOps /\ lastCall.ret = 1) =>
        \A b \in lastCall.before : \A a \in lastCall.after :
            TimestampOf(a) > TimestampOf(b)

\* The positions of the events of user u among the messages of inbox.
EventsOf(inbox, u) == {i \in DOMAIN inbox : JsonLoads(inbox[i].data).user_uuid = u}

\* C20: the write and the publish of update_location_and_publish are one
\* step: a subscribed connection holds the events in the order in which
\* the writes were applied, and the last event of a user carries the record
\* that is stored for that user.
C20_PublishOrderIsWriteOrder ==
    \A x \in Sessions :
        LET sx == sessions[x]
        IN  sx.listener = "subscribed" =>
                /\ \A i, j \in DOMAIN sx.inbox : i < j => sx.inbox[i].id < sx.inbox[j].id
                /\ \A u \in Users :
                       EventsOf(sx.inbox, u) # {} =>
                           HGet(location[sx.client][sx.group], u)
                               = {sx.inbox[Max(EventsOf(sx.inbox, u))].data}

\* C20 witness: a subscribed connection holds two events of one user that
\* carry different records.
C20_Witness ==
    \E x \in Sessions, u \in Users :
        /\ sessions[x].listener = "subscribed"
        /\ Len(sessions[x].inbox) = 2
        /\ EventsOf(sessions[x].inbox, u) = {1, 2}
        /\ sessions[x].inbox[1].data # sessions[x].inbox[2].data

\* A step of one of the mutating operations on group g.
MutatingCall(g) ==
    \/ \E u \in Users : add_member(g, u)
    \/ \E ms \in SUBSET Users : sync_group(g, ms)
    \/ \E u \in Users, req \in Requests : update_location(g, u, req)
    \/ \E u \in Users, req \in Requests : update_location_and_publish(g, u, req)
    \/ \E u \in Users : remove_member_srem(g, u)
    \/ \E c \in inflight : c.group = g /\ remove_member_hdel(c)

\* C21: every mutating operation on a group leaves the membership set, if
\* it exists, with the full TTL window.
C21_MutationsRefreshMemberTtl ==
    [][\A g \in Groups :
          (MutatingCall(g) /\ is_exists(ShardOf(g), g)') =>
              ttl'[ShardOf(g)][g].member = TtlWindow]_vars

\* C22: an applied location update leaves the location hash and the
\* membership set with the full TTL window; a call whose timestamp is not
\* newer than the stored one leaves both TTLs as they were.
C22_UpdateTtlEffect ==
    [][\A g \in Groups, u \in Users, req \in Requests :
          (update_location(g, u, req) \/ update_location_and_publish(g, u, req)) =>
              IF \E b \in HGet(location[ShardOf(g)][g], u) :
                     TimestampOf(b) >= req.timestamp.epoch
              THEN ttl' = ttl
              ELSE /\ ttl'[ShardOf(g)][g].location = TtlWindow
                   /\ is_exists(ShardOf(g), g) =>
                          ttl'[ShardOf(g)][g].member = TtlWindow]_vars

CacheFails(g, ok) == get_redis(g, reachable).status # "ok" \/ ~ok

\* C23: when the cache is unavailable or fails during create or join_group,
\* the request still succeeds, the durable group and membership exist
\* afterwards, and no cached membership set has changed.
C23_PopulateFailureSwallowed ==
    [][\A g \in Groups, u \in Users, cache_ok \in BOOLEAN :
          (api_create(g, u, cache_ok) \/ api_join_group(g, u, cache_ok))
              => /\ lastRequest'.status = "success"
                 /\ g \in db'.groups
                 /\ u \in db'.memberships[g]
                 /\ CacheFails(g, cache_ok) => member' = member]_vars

C23_Witness ==
    /\ lastRequest.op \in {"create", "join_group"}
    /\ lastRequest.cache_failed
    /\ lastRequest.status = "success"
    /\ lastRequest.user \in db.memberships[lastRequest.group]
    /\ lastRequest.user \notin member[ShardOf(lastRequest.group)][lastRequest.group]

\* C24: delete, leave_group and kick_user change the durable store only
\* after the whole cache removal has succeeded; when the cache removal
\* fails the request answers with an error and the durable store is
\* unchanged.
C24_RemovalFailureSurfaced ==
    [][\A g \in Groups, u \in Users, done \in CommandsDone :
          (api_delete(g, done) \/ api_leave_group(g, u, done) \/ api_kick_user(g, u, done))
              => /\ CacheFails(g, done = 2) => (lastRequest'.status = "error" /\ db' = db)
                 /\ db' # db => /\ ~CacheFails(g, done = 2)
                                /\ lastRequest'.status = "success"
                                /\ lastRequest'.op # "delete"
                                      => lastRequest'.user \notin member'[ShardOf(g)][g]
                                /\ lastRequest'.op = "delete"
                                      => ~is_exists(ShardOf(g), g)']_vars

C24_Witness ==
    /\ lastRequest.op \in {"delete", "leave_group", "kick_user"}
    /\ lastRequest.cache_failed
    /\ lastRequest.status = "error"
    /\ lastRequest.group \in db.groups
    /\ lastRequest.user \in db.memberships[lastRequest.group]
    /\ reachable[ShardOf(lastRequest.group)]

\* C25: a broadcast to g visits every session that was registered for g
\* when it started; a session whose send fails is out of g's registry, every
\* other visited session has the message, no session of another group has
\* it, and the call ends by returning.
C25_BroadcastDropsFailedOnly ==
    lastRequest.op = "broadcast" =>
        LET b == lastRequest
        IN  /\ b.pending \cup b.delivered \cup b.failed = b.targets
            /\ b.delivered \cap b.failed = {}
            /\ b.failed \cap active_connections[b.group] = {}
            /\ \A x \in b.delivered : sessions[x].group = b.group
            /\ b.status \in {"running", "returned"}
            /\ b.status = "returned" => b.delivered = b.targets \ b.failed

C25_Witness ==
    /\ lastRequest.op = "broadcast"
    /\ lastRequest.status = "returned"
    /\ lastRequest.failed # {}
    /\ lastRequest.delivered # {}

\* The stored record of a field is malformed: no JSON document, or a
\* document without a numeric timestamp.
MalformedRecord(hash, field) ==
    \E current \in HGet(hash, field) :
        \/ ~JsonDecodes(current)
        \/ LuaToNumber(JsonLoads(current).timestamp) = {}

\* C27: an update call on a malformed stored record overwrites it with the
\* new record, and listing the locations of a group completes without an
\* error whatever is stored.
C27_MalformedRecordSelfHeals ==
    [][/\ \A g \in Groups, u \in Users, req \in Requests :
              (/\ update_location(g, u, req) \/ update_location_and_publish(g, u, req)
               /\ MalformedRecord(location[ShardOf(g)][g], u))
                  => HGet(location'[ShardOf(g)][g], u) = {JsonDumps(Payload(u, req))}
       /\ \A g \in Groups : api_get_locations(g) => lastRequest'.status = "success"]_vars

\* C28: every get_locations, ping or update_location message handled by a
\* session that stays subscribed is answered by a message sent to its
\* client within the handling of that message.
C28_EveryMessageAnswered ==
    [][\A x \in Sessions, m \in SessionMessages :
          (ws_receive(x, m) /\ sessions'[x].pc = "loop") => HandlerReply(m) # "none"]_vars

\* C29: for every key and every count n >= 1, get_server_index returns one
\* integer of 0 .. n-1, and a call with the key and count of the call before
\* it returns the same index.
C29_IndexInRangeAndDeterministic ==
    (lastRequest.op = "get_server_index" /\ lastRequest.call.num_servers >= 1) =>
        LET c == lastRequest.call
        IN  /\ c.result.raises = "none"
            /\ Cardinality(c.result.returns) = 1
            /\ c.result.returns \subseteq 0 .. (c.num_servers - 1)
            /\ \A p \in lastRequest.previous :
                   (p.key = c.key /\ p.num_servers = c.num_servers)
                       => p.result.returns = c.result.returns

C29_Witness ==
    /\ lastRequest.op = "get_server_index"
    /\ lastRequest.call.key = G1
    /\ lastRequest.call.num_servers = 3
    /\ lastRequest.call.result.returns = {get_server_index(G1, 3)}
    /\ \E p \in lastRequest.previous : p = lastRequest.call

\* C30: for every count n < 1, zero or negative, and every key,
\* get_server_index raises ValueError and returns no index.
C30_InvalidCountRaises ==
    (lastRequest.op = "get_server_index" /\ lastRequest.call.num_servers < 1) =>
        /\ lastRequest.call.result.raises = "ValueError"
        /\ lastRequest.call.result.returns = {}

C30_Witness ==
    /\ lastRequest.op = "get_server_index"
    /\ lastRequest.call.num_servers < 0
    /\ lastRequest.call.result.raises = "ValueError"
    /\ \E p \in lastRequest.previous :
           p.num_servers = 0 /\ p.result.raises = "ValueError"

\* C31: get_redis with no initialised client raises the 503 error, and with
\* clients and a key that is no UUID the 400 error; in both cases it has
\* pinged no shard.
C31_BadInputRejectedBeforeProbe ==
    lastRequest.op = "get_redis" =>
        LET c == lastRequest.call
        IN  /\ c.clients = {} =>
                  /\ c.result.status = "HTTPException"
                  /\ c.result.code = 503
                  /\ c.result.probes = <<>>
            /\ (c.clients # {} /\ c.key \in InvalidKeys) =>
                  /\ c.result.status = "HTTPException"
                  /\ c.result.code = 400
                  /\ c.result.probes = <<>>

C31_Witness ==
    /\ lastRequest.op = "get_redis"
    /\ lastRequest.call.key = "invalid-uuid"
    /\ lastRequest.call.clients = Shards
    /\ lastRequest.call.result.code = 400
    /\ \E p \in lastRequest.previous : p.clients = {} /\ p.result.code = 503

\* C32: an update_location or update_location_and_publish of user u in
\* group g leaves the stored record of every other user of g, and every
\* record of every other group on every shard, as it was.
C32_UpdateTouchesOneField ==
    [][\A g \in Groups, u \in Users, req \in Requests :
          (update_location(g, u, req) \/ update_location_and_publish(g, u, req))
              => \A s \in Shards, g2 \in Groups, u2 \in Users :
                     (s # ShardOf(g) \/ g2 # g \/ u2 # u)
                         => HGet(location'[s][g2], u2) = HGet(location[s][g2], u2)]_vars

C32_Witness ==
    /\ lastCall.op \in UpdateOps
    /\ lastCall.ret = 1
    /\ \E u2 \in Users \ {lastCall.user} :
           /\ HGet(location[lastCall.shard][lastCall.group], u2) # {}
           /\ HGet(location[lastCall.shard][lastCall.group], u2) # lastCall.after
    /\ lastCall.after = HGet(location[lastCall.shard][lastCall.group], lastCall.user)

\* No operation is between two of its commands.
AllCompleted ==
    /\ inflight = {}
    /\ lastRequest.op = "location_request" => lastRequest.stage # "checked"

\* C33: once all operations have completed, every user with an entry in a
\* group's location hash is in that group's cached membership set, however
\* removals and location updates of members interleaved.
C33_LocationsOnlyOfMembers ==
    AllCompleted =>
        \A s \in Shards, g \in Groups : DOMAIN location[s][g] \subseteq member[s][g]

\* C34: a session that has read its first snapshot gets every update applied
\* afterwards to its group as an event, also while its listener task has
\* not subscribed yet.
C34_NoUpdateBetweenSnapshotAndSubscribe ==
    [][\A x \in Sessions :
          (/\ sessions[x].pc = "loop"
           /\ sessions[x].listener = "created"
           /\ ~sessions[x].cancelled
           /\ lastCall'.op \in UpdateOps
           /\ lastCall'.ret = 1
           /\ lastCall'.group = sessions[x].group
           /\ lastCall'.shard = sessions[x].client)
              => Len(sessions'[x].inbox) = Len(sessions[x].inbox) + 1]_vars

C36_RegistryHoldsCheckedSessions ==
    [][/\ \A g \in Groups : \A x \in active_connections'[g] :
              /\ sessions'[x].pc \in {"registered", "loop"}
              /\ sessions'[x].group = g
              /\ sessions'[x].token_ok
              /\ \A g2 \in Groups \ {g} : x \notin active_connections'[g2]
       /\ \A g \in Groups : \A x \in active_connections'[g] \ active_connections[g] :
              /\ sessions[x].pc = "new"
              /\ get_token_data_ws(sessions'[x].token_ok).ok
              /\ get_redis(g, reachable).status = "ok"
              /\ ensure_user_is_member_of_group(get_redis(g, reachable).client, g,
                                                sessions'[x].user)]_vars

C36_Witness ==
    /\ \E x \in Sessions : x \in active_connections[sessions[x].group]
    /\ \E y \in Sessions : /\ sessions[y].pc = "closed"
                           /\ ~sessions[y].token_ok
                           /\ \A g \in Groups : y \notin active_connections[g]

\* C37: a message handled by a session whose user is no longer in its
\* group's membership set (or whose group has no set) runs no action: the
\* cached members, locations and lifetimes are unchanged, no update call is
\* made, no event is published to any session, and the reply is the
\* membership error.
C37_FailedCheckRunsNothing ==
    [][\A x \in Sessions, m \in SessionMessages :
          (/\ ws_receive(x, m)
           /\ reachable[sessions[x].client]
           /\ sessions[x].user \notin member[sessions[x].client][sessions[x].group])
              => /\ UNCHANGED <<member, location, ttl, nupdates>>
                 /\ lastCall' = NoCall
                 /\ \A y \in Sessions : sessions'[y].inbox = sessions[y].inbox
                 /\ sessions'[x].error = NoLongerMember
                 /\ sessions'[x].pc = "closed"]_vars

C37_Witness ==
    \E x \in Sessions :
        /\ sessions[x].pc = "closed"
        /\ sessions[x].error = NoLongerMember
        /\ sessions[x].user \notin member[sessions[x].client][sessions[x].group]
        /\ location[sessions[x].client][sessions[x].group] # EmptyHash

\* C38: is_exists(g) holds exactly when g's membership set has a member:
\* the remove_member that takes the last member out makes it false, and
\* every add_member makes it true.
C38_ExistsIffHasMember ==
    [][/\ \A s \in Shards, g \in Groups :
              is_exists(s, g)' <=> Cardinality(member'[s][g]) >= 1
       /\ \A g \in Groups, u \in Users :
              (remove_member_srem(g, u) /\ member[ShardOf(g)][g] = {u})
                  => ~is_exists(ShardOf(g), g)'
       /\ \A g \in Groups, u \in Users :
              add_member(g, u) => is_exists(ShardOf(g), g)']_vars

C38_Witness ==
    /\ lastCall.op = "remove_member"
    /\ lastCall.ret = 1
    /\ lastCall.before = {lastCall.user}
    /\ member[lastCall.shard][lastCall.group] = {}
    /\ ~is_exists(lastCall.shard, lastCall.group)

\* C39: sync_group only adds: the cached set afterwards is the set before
\* together with the listed users, the other sets and every location hash
\* are untouched; with an empty list the sets, the hashes and every TTL are
\* as before.
C39_SyncGroupOnlyAdds ==
    [][/\ \A g \in Groups, ms \in SUBSET Users :
              sync_group(g, ms)
                  => /\ member[ShardOf(g)][g] \subseteq member'[ShardOf(g)][g]
                     /\ member'[ShardOf(g)][g] \ member[ShardOf(g)][g] \subseteq ms
                     /\ \A s \in Shards, g2 \in Groups :
                            (s # ShardOf(g) \/ g2 # g) => member'[s][g2] = member[s][g2]
                     /\ location' = location
                     /\ \A s \in Shards, g2 \in Groups :
                            ttl'[s][g2].location = ttl[s][g2].location
       /\ \A g \in Groups :
              sync_group_empty(g) => UNCHANGED <<member, location, ttl>>]_vars

C39_Witness ==
    /\ lastCall.op = "sync_group"
    /\ lastCall.ret = 0
    /\ member[lastCall.shard][lastCall.group] # {}
    /\ ttl[lastCall.shard][lastCall.group].member > 0
    /\ ttl[lastCall.shard][lastCall.group].member < TtlWindow
    /\ location[lastCall.shard][lastCall.group] # EmptyHash

====
